---- MODULE Spec2Model ----
(***************************************************************************)
(* Model of ui/app.js: the skill selection state (selectedSkills), the     *)
(* weighted interest string kept in the hidden "interests" form field,     *)
(* the four views of the page and the requests sent to the recommendation  *)
(* API.                                                                    *)
(*                                                                         *)
(* A JavaScript string is a sequence of one-character strings, so that     *)
(* repetition, joining, trimming and parsing are computed and not assumed. *)
(* A JavaScript number is Num(n), the value NaN is NaN and a missing       *)
(* argument is Undefined.                                                  *)
(***************************************************************************)
EXTENDS Integers, Sequences, FiniteSets, TLC

VARIABLES
    selectedSkills,   \* app.js:6    let selectedSkills = []
    interests,        \* app.js:60   value of the hidden input #interests
    hiddenOptions,    \* app.js:95   option values of #skill-select with display none
    inputHidden,      \* app.js:46   #input-section carries class hidden
    resultsHidden,    \* app.js:47   #results-section carries class hidden
    loadingHidden,    \* app.js:48   #loading carries class hidden
    errorHidden,      \* app.js:49   #error-message carries class hidden
    errorText,        \* app.js:50   text of #error-text
    pending,          \* app.js:216  /recommend requests sent and not yet answered
    health,           \* app.js:510  the load-time /health request
    settled,          \* app.js:216  fetch promises settled, their await not yet resumed
    availableSkills,  \* app.js:5    let availableSkills = []
    skillSelectOptions,\* app.js:68  values of the options appended to #skill-select
    skillsLoad,       \* app.js:11   the fetch of filtered_skills.txt
    btnClass,         \* app.js:385  classList of the feedback buttons of a card
    btnLabel,         \* app.js:391  textContent of the feedback buttons of a card
    feedbackPending,  \* app.js:371  /feedback requests in flight
    timers,           \* app.js:392  confirmation timers not yet fired
    userSkillsDisplay,\* app.js:276  the skills listed in #user-skills-display
    modelInfo,        \* app.js:264  the approach named in the model info banner
    footer,           \* app.js:498  the approach named in #footer-text
    lastOp            \* history: the handler that ran last, with its arguments

vars == <<selectedSkills, interests, hiddenOptions, inputHidden, resultsHidden,
          loadingHidden, errorHidden, errorText, pending, health, settled,
          availableSkills, skillSelectOptions, skillsLoad,
          btnClass, btnLabel, feedbackPending, timers,
          userSkillsDisplay, modelInfo, footer, lastOp>>

aggVars == <<selectedSkills, interests, hiddenOptions>>
viewVars == <<inputHidden, resultsHidden, loadingHidden, errorHidden, errorText>>
netVars == <<pending, health, settled>>
loadVars == <<availableSkills, skillSelectOptions, skillsLoad>>
\* the feedback buttons of one recommendation card, from its creation by
\* createRecommendationCard on. No other handler reaches into a card: a later
\* displayRecommendations detaches it from the page, its buttons keep their
\* classes, labels, requests and timers
feedbackVars == <<btnClass, btnLabel, feedbackPending, timers>>
shownVars == <<userSkillsDisplay, modelInfo, footer>>

----------------------------------------------------------------------------
(* JavaScript values *)

Num(n) == [num |-> n]
NaN == [nan |-> TRUE]
Undefined == [undefined |-> TRUE]
IsNum(v) == DOMAIN v = {"num"}

----------------------------------------------------------------------------
(* Strings *)

Whitespace == {" ", "\t", "\n", "\r"}
Digits == <<"0", "1", "2", "3", "4", "5", "6", "7", "8", "9">>
IsDigit(c) == \E d \in 1..10 : Digits[d] = c
DigitVal(c) == (CHOOSE d \in 1..10 : Digits[d] = c) - 1

RECURSIVE TrimStart(_)
TrimStart(s) ==
    IF s # <<>> /\ Head(s) \in Whitespace THEN TrimStart(Tail(s)) ELSE s

RECURSIVE TrimEnd(_)
TrimEnd(s) ==
    IF s # <<>> /\ s[Len(s)] \in Whitespace
    THEN TrimEnd(SubSeq(s, 1, Len(s) - 1)) ELSE s

\* String.prototype.trim
Trim(s) == TrimEnd(TrimStart(s))

\* the value of the longest prefix of s made of decimal digits, read after acc
RECURSIVE DigitsValue(_, _)
DigitsValue(s, acc) ==
    IF s # <<>> /\ IsDigit(Head(s))
    THEN DigitsValue(Tail(s), 10 * acc + DigitVal(Head(s)))
    ELSE acc

\* parseInt(string): leading white space is skipped, then an optional sign,
\* then decimal digits up to the first other character; NaN without a digit
ParseInt(s) ==
    LET t == TrimStart(s)
        neg == t # <<>> /\ Head(t) = "-"
        u == IF t # <<>> /\ Head(t) \in {"-", "+"} THEN Tail(t) ELSE t
    IN  IF u = <<>> \/ ~IsDigit(Head(u)) THEN NaN
        ELSE Num((IF neg THEN -1 ELSE 1) * DigitsValue(u, 0))

\* Array.prototype.join
RECURSIVE Join(_, _)
Join(parts, sep) ==
    IF parts = <<>> THEN <<>>
    ELSE IF Len(parts) = 1 THEN parts[1]
    ELSE parts[1] \o sep \o Join(Tail(parts), sep)

\* Array(n).fill(v), for n a valid array length
ArrayFill(n, v) == [i \in 1..n |-> v]

\* Array(n) throws a RangeError when n is not a valid array length
ArrayThrows(v) == ~IsNum(v) \/ v.num < 0

----------------------------------------------------------------------------
(* Skill names *)

s_a == <<"a">>
s_b == <<"b">>
s_python == <<"p", "y", "t", "h", "o", "n">>
s_machine_learning == <<"m", "a", "c", "h", "i", "n", "e", " ", "l", "e", "a", "r", "n", "i", "n", "g">>
s_data_analysis == <<"d", "a", "t", "a", " ", "a", "n", "a", "l", "y", "s", "i", "s">>
s_algorithms == <<"a", "l", "g", "o", "r", "i", "t", "h", "m", "s">>
s_biology == <<"b", "i", "o", "l", "o", "g", "y">>
s_research == <<"r", "e", "s", "e", "a", "r", "c", "h">>
s_chemistry == <<"c", "h", "e", "m", "i", "s", "t", "r", "y">>
s_genetics == <<"g", "e", "n", "e", "t", "i", "c", "s">>
s_finance == <<"f", "i", "n", "a", "n", "c", "e">>
s_marketing == <<"m", "a", "r", "k", "e", "t", "i", "n", "g">>
s_management == <<"m", "a", "n", "a", "g", "e", "m", "e", "n", "t">>
s_economics == <<"e", "c", "o", "n", "o", "m", "i", "c", "s">>
s_design == <<"d", "e", "s", "i", "g", "n">>
s_adobe_photoshop == <<"a", "d", "o", "b", "e", " ", "p", "h", "o", "t", "o", "s", "h", "o", "p">>
s_creativity == <<"c", "r", "e", "a", "t", "i", "v", "i", "t", "y">>
s_visual_communication == <<"v", "i", "s", "u", "a", "l", " ", "c", "o", "m", "m", "u", "n", "i", "c", "a", "t", "i", "o", "n">>
s_engineering == <<"e", "n", "g", "i", "n", "e", "e", "r", "i", "n", "g">>
s_mathematics == <<"m", "a", "t", "h", "e", "m", "a", "t", "i", "c", "s">>
s_physics == <<"p", "h", "y", "s", "i", "c", "s">>
s_problem_solving == <<"p", "r", "o", "b", "l", "e", "m", " ", "s", "o", "l", "v", "i", "n", "g">>

Skill(n, e) == [name |-> n, experience |-> Num(e)]

testCases ==
    [t \in {"cs", "bio", "business", "arts", "engineering"} |->
        CASE t = "cs" ->
               <<Skill(s_python, 4), Skill(s_machine_learning, 3),
                 Skill(s_data_analysis, 3), Skill(s_algorithms, 3)>>
          [] t = "bio" ->
               <<Skill(s_biology, 4), Skill(s_research, 3),
                 Skill(s_chemistry, 3), Skill(s_genetics, 2)>>
          [] t = "business" ->
               <<Skill(s_finance, 3), Skill(s_marketing, 3),
                 Skill(s_management, 2), Skill(s_economics, 3)>>
          [] t = "arts" ->
               <<Skill(s_design, 4), Skill(s_adobe_photoshop, 4),
                 Skill(s_creativity, 4), Skill(s_visual_communication, 3)>>
          [] t = "engineering" ->
               <<Skill(s_engineering, 3), Skill(s_mathematics, 4),
                 Skill(s_physics, 4), Skill(s_problem_solving, 4)>>]

----------------------------------------------------------------------------
(* The weighted interest string *)

\* a duplicate test that looks at the last entry alone
HasSkillLastOnly(skills, skillName) ==
    Len(skills) > 0 /\ skills[Len(skills)].name = skillName

\* selectedSkills.some(s => s.name === skillName)
HasSkill(skills, skillName) ==
    \E i \in 1..Len(skills) : skills[i].name = skillName

\* a repetition that joins the copies without the space
SegmentNoSpace(skill) ==
    Join(ArrayFill(skill.experience.num, skill.name), <<>>)

\* Array(skill.experience).fill(skill.name).join(' ')
Segment(skill) == Join(ArrayFill(skill.experience.num, skill.name), <<" ">>)

\* the map of updateInterestsInput throws at the first entry whose experience
\* is no array length, before the hidden field is written
QueryThrows(skills) ==
    \E i \in 1..Len(skills) : ArrayThrows(skills[i].experience)

\* selectedSkills.map(...).join(', ')
WeightedQuery(skills) ==
    Join([i \in 1..Len(skills) |-> Segment(skills[i])], <<",", " ">>)

\* updateInterestsInput on the list skills, the hidden field holding old
UpdateInterestsInput(skills, old) ==
    IF QueryThrows(skills)
    THEN [value |-> old, threw |-> TRUE]
    ELSE [value |-> WeightedQuery(skills), threw |-> FALSE]

----------------------------------------------------------------------------
(* Bounds and inputs *)

\* addSkill appends only while the list is shorter than this
MaxSkills == 3
\* a submit sends a request only while fewer than this many are unanswered
MaxPending == 2

\* the options of #skill-select after populateSkillSelect, the placeholder
\* option (value '') left out: the skills file held two entries of the skills
\* list
skillOptions == <<s_machine_learning, s_python>>

\* the option values of #experience-select that the add button reads
ExperienceValues == {<<"4">>}

\* names, level arguments and level strings passed to the global functions
NameArgs == {s_python, s_machine_learning}
LevelArgs == {Undefined}
LevelStrings == {<<"0">>, <<"5">>, <<"6">>, <<"x">>}
TestNames == {"cs", "bio", "law"}

\* the .feedback-btn elements of a card whose item has a course_url: the link
\* and the two buttons with an onclick
Buttons == {"viewCourse", "interested", "notForMe"}
FeedbackButtons == {"interested", "notForMe"}

\* the feedbackType that the onclick of a button passes to submitFeedback
FeedbackType(button) == IF button = "interested" THEN "clicked" ELSE "rejected"

\* the text of a button in the markup of the card (emoji left out)
Label(button) ==
    CASE button = "viewCourse" -> "View Course"
      [] button = "interested" -> "Interested"
      [] button = "notForMe" -> "Not for me"
Recorded == "Recorded"

\* how a /feedback request ends
FeedbackOutcomes == {"ok", "notOk", "networkError"}

\* /feedback requests and confirmation timers of the card that exist at once
MaxFeedback == 2

----------------------------------------------------------------------------
(* The skill list: addSkill, removeSkill, updateSkillExperience *)

\* a default of 1 for the experience level
DefaultLevelOne(arg) == IF arg = Undefined THEN Num(1) ELSE arg

\* function addSkill(skillName, experienceLevel = 3)
DefaultLevel(arg) == IF arg = Undefined THEN Num(3) ELSE arg

\* an add that overwrites the level of an entry already present
AddSkillOverwrite(skills, intr, skillName, experienceLevel) ==
    LET set == IF HasSkill(skills, skillName)
               THEN [i \in 1..Len(skills) |->
                        IF skills[i].name = skillName
                        THEN [skills[i] EXCEPT !.experience = experienceLevel]
                        ELSE skills[i]]
               ELSE Append(skills, [name |-> skillName,
                                    experience |-> experienceLevel])
        upd == UpdateInterestsInput(set, intr)
    IN  [skills |-> set, interests |-> upd.value, threw |-> upd.threw]

\* addSkill run on the list skills while the hidden field holds intr
AddSkillTo(skills, intr, skillName, experienceLevel) ==
    IF HasSkill(skills, skillName)
    THEN [skills |-> skills, interests |-> intr, threw |-> FALSE]
    ELSE LET pushed == Append(skills, [name |-> skillName,
                                       experience |-> experienceLevel])
             upd == UpdateInterestsInput(pushed, intr)
         IN  [skills |-> pushed, interests |-> upd.value, threw |-> upd.threw]

\* updateSkillSelectOptions: the options hidden for the list skills
SelectOptionsHidden(skills) ==
    {o \in {skillOptions[i] : i \in 1..Len(skillOptions)} :
        o # <<>> /\ HasSkill(skills, o)}

\* test.skills.forEach(skill => addSkill(skill.name, skill.experience)); an
\* exception thrown by addSkill ends the loop
RECURSIVE AddAll(_, _, _)
AddAll(skills, intr, list) ==
    IF list = <<>> THEN [skills |-> skills, interests |-> intr, threw |-> FALSE]
    ELSE LET r == AddSkillTo(skills, intr, list[1].name, list[1].experience)
         IN  IF r.threw THEN r ELSE AddAll(r.skills, r.interests, Tail(list))

\* a call of the global function addSkill
AddSkill(skillName, arg) ==
    /\ HasSkill(selectedSkills, skillName) \/ Len(selectedSkills) < MaxSkills
    /\ LET r == AddSkillTo(selectedSkills, interests, skillName, DefaultLevel(arg))
       IN  /\ selectedSkills' = r.skills
           /\ interests' = r.interests
           /\ lastOp' = [op |-> "addSkill", name |-> skillName, arg |-> arg,
                         threw |-> r.threw]
    /\ UNCHANGED <<hiddenOptions, viewVars, netVars, loadVars,
                   feedbackVars, shownVars>>

\* the click handler of #add-skill-btn, the selects holding skillName and
\* experienceValue
AddSkillBtnClick(skillName, experienceValue) ==
    /\ HasSkill(selectedSkills, skillName) \/ Len(selectedSkills) < MaxSkills
    /\ LET experienceLevel == ParseInt(experienceValue)
           r == AddSkillTo(selectedSkills, interests, skillName, experienceLevel)
       IN  IF skillName = <<>>
           THEN /\ UNCHANGED aggVars
                /\ lastOp' = [op |-> "addSkillBtn", name |-> skillName,
                              arg |-> experienceLevel, threw |-> FALSE]
           ELSE /\ selectedSkills' = r.skills
                /\ interests' = r.interests
                /\ hiddenOptions' = IF r.threw THEN hiddenOptions
                                    ELSE SelectOptionsHidden(r.skills)
                /\ lastOp' = [op |-> "addSkillBtn", name |-> skillName,
                              arg |-> experienceLevel, threw |-> r.threw]
    /\ UNCHANGED <<viewVars, netVars, loadVars, feedbackVars, shownVars>>

\* a removeSkill that drops the named entry and every entry after it
RemoveSkillAndAfter(skillName) ==
    /\ LET kept == IF HasSkill(selectedSkills, skillName)
                   THEN SubSeq(selectedSkills, 1,
                               (CHOOSE i \in 1..Len(selectedSkills) :
                                    selectedSkills[i].name = skillName) - 1)
                   ELSE selectedSkills
           upd == UpdateInterestsInput(kept, interests)
       IN  /\ selectedSkills' = kept
           /\ interests' = upd.value
           /\ hiddenOptions' = IF upd.threw THEN hiddenOptions
                               ELSE SelectOptionsHidden(kept)
           /\ lastOp' = [op |-> "removeSkill", name |-> skillName,
                         arg |-> [found |-> HasSkill(selectedSkills, skillName)],
                         threw |-> upd.threw]
    /\ UNCHANGED <<viewVars, netVars, loadVars, feedbackVars, shownVars>>

\* function removeSkill(skillName)
RemoveSkill(skillName) ==
    /\ LET kept == SelectSeq(selectedSkills, LAMBDA s : s.name # skillName)
           upd == UpdateInterestsInput(kept, interests)
       IN  /\ selectedSkills' = kept
           /\ interests' = upd.value
           /\ hiddenOptions' = IF upd.threw THEN hiddenOptions
                               ELSE SelectOptionsHidden(kept)
           /\ lastOp' = [op |-> "removeSkill", name |-> skillName,
                         arg |-> [found |-> HasSkill(selectedSkills, skillName)],
                         threw |-> upd.threw]
    /\ UNCHANGED <<viewVars, netVars, loadVars, feedbackVars, shownVars>>

\* selectedSkills.find(s => s.name === skillName): the first match
FindSkill(skills, skillName) ==
    CHOOSE i \in 1..Len(skills) :
        /\ skills[i].name = skillName
        /\ \A j \in 1..(i - 1) : skills[j].name # skillName

\* an updateSkillExperience that adds the entry when the name is not listed
UpdateSkillExperienceOrAdd(skillName, newExperience) ==
    /\ LET set == IF HasSkill(selectedSkills, skillName)
                  THEN [selectedSkills EXCEPT
                            ![FindSkill(selectedSkills, skillName)].experience =
                                ParseInt(newExperience)]
                  ELSE Append(selectedSkills,
                              [name |-> skillName,
                               experience |-> ParseInt(newExperience)])
           upd == UpdateInterestsInput(set, interests)
       IN  /\ selectedSkills' = set
           /\ interests' = upd.value
           /\ lastOp' = [op |-> "updateSkillExperience", name |-> skillName,
                         arg |-> ParseInt(newExperience), threw |-> upd.threw]
    /\ UNCHANGED <<hiddenOptions, viewVars, netVars, loadVars,
                   feedbackVars, shownVars>>

\* function updateSkillExperience(skillName, newExperience)
UpdateSkillExperience(skillName, newExperience) ==
    /\ IF HasSkill(selectedSkills, skillName)
       THEN LET i == FindSkill(selectedSkills, skillName)
                set == [selectedSkills EXCEPT
                            ![i].experience = ParseInt(newExperience)]
                upd == UpdateInterestsInput(set, interests)
            IN  /\ selectedSkills' = set
                /\ interests' = upd.value
                /\ lastOp' = [op |-> "updateSkillExperience", name |-> skillName,
                              arg |-> ParseInt(newExperience), threw |-> upd.threw]
       ELSE /\ UNCHANGED <<selectedSkills, interests>>
            /\ lastOp' = [op |-> "updateSkillExperience", name |-> skillName,
                          arg |-> ParseInt(newExperience), threw |-> FALSE]
    /\ UNCHANGED <<hiddenOptions, viewVars, netVars, loadVars,
                   feedbackVars, shownVars>>

\* a reset handler without the call of updateSkillSelectOptions
ResetKeepsOptionsHidden ==
    /\ resultsHidden' = TRUE
    /\ inputHidden' = FALSE
    /\ selectedSkills' = <<>>
    /\ lastOp' = [op |-> "reset", name |-> <<>>, arg |-> Undefined, threw |-> FALSE]
    /\ UNCHANGED <<interests, hiddenOptions, loadingHidden, errorHidden, errorText,
                   netVars, loadVars, feedbackVars, shownVars>>

\* the click handler of #reset-btn; form.reset() restores the selects and
\* inputs of the form and leaves the value of a hidden input as it is
ResetBtnClick ==
    /\ resultsHidden' = TRUE
    /\ inputHidden' = FALSE
    /\ selectedSkills' = <<>>
    /\ hiddenOptions' = SelectOptionsHidden(<<>>)
    /\ lastOp' = [op |-> "reset", name |-> <<>>, arg |-> Undefined, threw |-> FALSE]
    /\ UNCHANGED <<interests, loadingHidden, errorHidden, errorText, netVars, loadVars,
                   feedbackVars, shownVars>>

\* a fillTestCase that adds the test skills to the skills already listed
FillTestCaseKeepsSkills(testName) ==
    /\ IF testName \in DOMAIN testCases
       THEN LET r == AddAll(selectedSkills, interests, testCases[testName])
            IN  /\ selectedSkills' = r.skills
                /\ interests' = r.interests
                /\ lastOp' = [op |-> "fillTestCase", name |-> <<>>,
                              arg |-> [test |-> testName], threw |-> r.threw]
       ELSE /\ UNCHANGED <<selectedSkills, interests>>
            /\ lastOp' = [op |-> "fillTestCase", name |-> <<>>,
                          arg |-> [test |-> testName], threw |-> FALSE]
    /\ UNCHANGED <<hiddenOptions, viewVars, netVars, loadVars,
                   feedbackVars, shownVars>>

\* a fillTestCase that empties the list before it looks the test case up
FillTestCaseClearsFirst(testName) ==
    /\ IF testName \in DOMAIN testCases
       THEN LET r == AddAll(<<>>, interests, testCases[testName])
            IN  /\ selectedSkills' = r.skills
                /\ interests' = r.interests
                /\ lastOp' = [op |-> "fillTestCase", name |-> <<>>,
                              arg |-> [test |-> testName], threw |-> r.threw]
       ELSE /\ selectedSkills' = <<>>
            /\ UNCHANGED interests
            /\ lastOp' = [op |-> "fillTestCase", name |-> <<>>,
                          arg |-> [test |-> testName], threw |-> FALSE]
    /\ UNCHANGED <<hiddenOptions, viewVars, netVars, loadVars,
                   feedbackVars, shownVars>>

\* function fillTestCase(testName); the border it sets on the form and the
\* timer that clears it touch no other state
FillTestCase(testName) ==
    /\ IF testName \in DOMAIN testCases
       THEN LET r == AddAll(<<>>, interests, testCases[testName])
            IN  /\ selectedSkills' = r.skills
                /\ interests' = r.interests
                /\ lastOp' = [op |-> "fillTestCase", name |-> <<>>,
                              arg |-> [test |-> testName], threw |-> r.threw]
       ELSE /\ UNCHANGED <<selectedSkills, interests>>
            /\ lastOp' = [op |-> "fillTestCase", name |-> <<>>,
                          arg |-> [test |-> testName], threw |-> FALSE]
    /\ UNCHANGED <<hiddenOptions, viewVars, netVars, loadVars,
                   feedbackVars, shownVars>>

----------------------------------------------------------------------------
(* The views, the submit handler and the requests *)

\* the values of the form fields k and model_type ('' when the form has none)
KValues == {<<"5">>}
ModelTypes == {""}
\* the approach field of a response body ('' when the body has none)
DataApproaches == {"", "collaborative"}
\* how a /recommend request ends
Outcomes == {"networkError", "notOkNoDetail", "okNoList", "ok"}
\* the same with the bodies a server can send besides: a body that is not JSON,
\* a detail, recommendations that is not an array, an item without skills,
\* an item without program_name
BodyOutcomes ==
    Outcomes \cup {"notOkDetail", "badBody", "okNotList", "okItemNoSkills",
                   "okItemNoName"}

AddSkillMessage == "Please add at least one skill with experience level"
HealthNotOkMessage ==
    "API server is not responding. Please make sure the server is running."
HealthErrorMessage ==
    "Cannot connect to API server. Please start the server with: python -m uvicorn app.main:app --reload"

\* the message of the error that reaches the catch block of the submit handler
FailureMessage(outcome) ==
    CASE outcome = "networkError" -> "Failed to fetch"
      [] outcome = "notOkDetail" -> "detail"
      [] outcome = "notOkNoDetail" -> "Failed to get recommendations"
      [] outcome = "badBody" -> "Unexpected token"
      [] outcome = "okNoList" -> "Cannot read properties of undefined"
      [] outcome = "okNotList" -> "recommendations.forEach is not a function"
      [] outcome = "okItemNoSkills" -> "Cannot read properties of undefined"

\* displayRecommendations returns: every item has skills to split, the other
\* fields of an item are only interpolated into the card
Rendered(outcome) == outcome \in {"ok", "okItemNoName"}

\* displayRecommendations throws at or in recommendations.forEach, after
\* displayUserSkills and the banner
ThrowsInDisplay(outcome) ==
    outcome \in {"okNoList", "okNotList", "okItemNoSkills"}

\* function showError(message)
ShowError(message) ==
    /\ errorText' = message
    /\ errorHidden' = FALSE
    /\ inputHidden' = TRUE
    /\ resultsHidden' = TRUE

\* a validation that tests the interests field alone
SubmitRejectedByFieldOnly(intr, skills) == Trim(intr) = <<>>

\* the validation of the submit handler: either test ends it with showError
SubmitRejected(intr, skills) == Trim(intr) = <<>> \/ Len(skills) = 0

\* a submit handler that empties the skill list once the request is sent
SubmitClearsSkills(kValue, modelTypeValue) ==
    LET k == ParseInt(kValue)
        modelType == IF modelTypeValue = "" THEN "hybrid" ELSE modelTypeValue
    IN  IF SubmitRejected(interests, selectedSkills)
        THEN /\ ShowError(AddSkillMessage)
             /\ lastOp' = [op |-> "submitRejected", name |-> <<>>,
                           arg |-> Undefined, threw |-> FALSE]
             /\ UNCHANGED <<aggVars, loadingHidden, netVars, loadVars,
                            feedbackVars, shownVars>>
        ELSE /\ Len(pending) < MaxPending
             /\ inputHidden' = TRUE
             /\ resultsHidden' = TRUE
             /\ errorHidden' = TRUE
             /\ loadingHidden' = FALSE
             /\ pending' = Append(pending, [interests |-> interests, k |-> k,
                                            approach |-> modelType])
             /\ selectedSkills' = <<>>
             /\ lastOp' = [op |-> "submitSent", name |-> <<>>,
                           arg |-> Undefined, threw |-> FALSE]
             /\ UNCHANGED <<interests, hiddenOptions, errorText, health,
                            settled, loadVars, feedbackVars, shownVars>>

\* the submit handler of #recommendation-form up to the fetch call
Submit(kValue, modelTypeValue) ==
    LET k == ParseInt(kValue)
        modelType == IF modelTypeValue = "" THEN "hybrid" ELSE modelTypeValue
    IN  IF SubmitRejected(interests, selectedSkills)
        THEN /\ ShowError(AddSkillMessage)
             /\ lastOp' = [op |-> "submitRejected", name |-> <<>>,
                           arg |-> Undefined, threw |-> FALSE]
             /\ UNCHANGED <<aggVars, loadingHidden, netVars, loadVars,
                            feedbackVars, shownVars>>
        ELSE /\ Len(pending) < MaxPending
             /\ inputHidden' = TRUE
             /\ resultsHidden' = TRUE
             /\ errorHidden' = TRUE
             /\ loadingHidden' = FALSE
             /\ pending' = Append(pending, [interests |-> interests, k |-> k,
                                            approach |-> modelType])
             /\ lastOp' = [op |-> "submitSent", name |-> <<>>,
                           arg |-> Undefined, threw |-> FALSE]
             /\ UNCHANGED <<aggVars, errorText, health, settled, loadVars,
                            feedbackVars,
                            shownVars>>

\* displayUserSkills: nothing is written while the list is empty
DisplayUserSkills(shown, skills) == IF Len(skills) = 0 THEN shown ELSE skills

\* a handler that sends the request again when it has failed
ResponseRetries(i, outcome, dataApproach) ==
    LET approach == IF dataApproach = "" THEN pending[i].approach
                    ELSE dataApproach
        others == SubSeq(pending, 1, i - 1) \o SubSeq(pending, i + 1, Len(pending))
    IN  /\ i \in 1..Len(pending)
        /\ loadingHidden' = TRUE
        /\ IF Rendered(outcome)
           THEN /\ pending' = others
                /\ userSkillsDisplay' =
                       DisplayUserSkills(userSkillsDisplay, selectedSkills)
                /\ modelInfo' = approach
                /\ footer' = approach
                /\ resultsHidden' = FALSE
                /\ lastOp' = [op |-> "responseOk", name |-> <<>>,
                              arg |-> [outcome |-> outcome], threw |-> FALSE]
                /\ UNCHANGED <<inputHidden, errorHidden, errorText>>
           ELSE /\ pending' = Append(others, pending[i])
                /\ ShowError(FailureMessage(outcome))
                /\ lastOp' = [op |-> "responseFailed", name |-> <<>>,
                              arg |-> [outcome |-> outcome], threw |-> FALSE]
                /\ UNCHANGED <<userSkillsDisplay, modelInfo, footer>>
        /\ UNCHANGED <<aggVars, health, settled, loadVars, feedbackVars>>

\* the submit handler from the resumption of await fetch to its end, for the
\* request that was sent and the way its fetch and body ended
AfterFetch(request, outcome, dataApproach) ==
    LET approach == IF dataApproach = "" THEN request.approach
                    ELSE dataApproach
    IN  /\ loadingHidden' = TRUE
        /\ IF Rendered(outcome)
           THEN /\ userSkillsDisplay' =
                       DisplayUserSkills(userSkillsDisplay, selectedSkills)
                /\ modelInfo' = approach
                /\ footer' = approach
                /\ resultsHidden' = FALSE
                /\ lastOp' = [op |-> "responseOk", name |-> <<>>,
                              arg |-> [outcome |-> outcome,
                                       dataApproach |-> dataApproach,
                                       requested |-> request.approach],
                              threw |-> FALSE]
                /\ UNCHANGED <<inputHidden, errorHidden, errorText>>
           ELSE /\ IF ThrowsInDisplay(outcome)
                   THEN /\ userSkillsDisplay' =
                               DisplayUserSkills(userSkillsDisplay, selectedSkills)
                        /\ modelInfo' = approach
                   ELSE UNCHANGED <<userSkillsDisplay, modelInfo>>
                /\ ShowError(FailureMessage(outcome))
                /\ lastOp' = [op |-> "responseFailed", name |-> <<>>,
                              arg |-> [outcome |-> outcome], threw |-> FALSE]
                /\ UNCHANGED footer
        /\ UNCHANGED <<aggVars, health, loadVars, feedbackVars>>

\* the rest of the submit handler, run when request i is answered
Response(i, outcome, dataApproach) ==
    /\ i \in 1..Len(pending)
    /\ pending' = SubSeq(pending, 1, i - 1) \o
                  SubSeq(pending, i + 1, Len(pending))
    /\ UNCHANGED settled
    /\ AfterFetch(pending[i], outcome, dataApproach)

\* the fetch of request i settles: the server has answered or the network has
\* failed; the handler resumes in a later turn of the event loop
FetchSettles(i, outcome, dataApproach) ==
    /\ i \in 1..Len(pending)
    /\ pending' = SubSeq(pending, 1, i - 1) \o
                  SubSeq(pending, i + 1, Len(pending))
    /\ settled' = Append(settled, [request |-> pending[i], outcome |-> outcome,
                                   dataApproach |-> dataApproach])
    /\ UNCHANGED <<aggVars, viewVars, health, loadVars,
                   feedbackVars, shownVars, lastOp>>

\* the event loop resumes the handler of the fetch that settled first
ResumeAfterFetch ==
    /\ settled # <<>>
    /\ settled' = Tail(settled)
    /\ UNCHANGED pending
    /\ AfterFetch(Head(settled).request, Head(settled).outcome,
                  Head(settled).dataApproach)

\* a hideError that leaves the input section hidden
HideErrorKeepsInputHidden ==
    /\ errorHidden' = TRUE
    /\ lastOp' = [op |-> "hideError", name |-> <<>>, arg |-> Undefined,
                  threw |-> FALSE]
    /\ UNCHANGED <<aggVars, inputHidden, resultsHidden, loadingHidden, errorText,
                   netVars, loadVars, feedbackVars, shownVars>>

\* function hideError()
HideError ==
    /\ errorHidden' = TRUE
    /\ inputHidden' = FALSE
    /\ lastOp' = [op |-> "hideError", name |-> <<>>, arg |-> Undefined,
                  threw |-> FALSE]
    /\ UNCHANGED <<aggVars, resultsHidden, loadingHidden, errorText, netVars, loadVars,
                   feedbackVars,
                   shownVars>>

\* the load handler of window, run when the /health request is answered
HealthCheck(outcome) ==
    /\ health = "pending"
    /\ health' = "done"
    /\ CASE outcome = "ok" -> UNCHANGED viewVars
         [] outcome = "notOk" ->
                ShowError(HealthNotOkMessage) /\ UNCHANGED loadingHidden
         [] outcome = "networkError" ->
                ShowError(HealthErrorMessage) /\ UNCHANGED loadingHidden
    /\ lastOp' = [op |-> "health", name |-> <<>>, arg |-> Undefined,
                  threw |-> FALSE]
    /\ UNCHANGED <<aggVars, pending, settled, loadVars,
                   feedbackVars, shownVars>>

----------------------------------------------------------------------------
(* Specifications *)

\* a page that loads with one skill already listed
InitPreloaded ==
    /\ selectedSkills = <<Skill(s_python, 3)>>
    /\ interests = WeightedQuery(<<Skill(s_python, 3)>>)
    /\ hiddenOptions = {}
    /\ inputHidden = FALSE
    /\ resultsHidden = TRUE
    /\ loadingHidden = TRUE
    /\ errorHidden = TRUE
    /\ errorText = ""
    /\ pending = <<>>
    /\ health = "pending"
    /\ settled = <<>>
    /\ availableSkills = skillOptions
    /\ skillSelectOptions = skillOptions
    /\ skillsLoad = "done"
    /\ btnClass = [b \in Buttons |-> {}]
    /\ btnLabel = [b \in Buttons |-> Label(b)]
    /\ feedbackPending = <<>>
    /\ timers = <<>>
    /\ userSkillsDisplay = <<>>
    /\ modelInfo = ""
    /\ footer = ""
    /\ lastOp = [op |-> "load", name |-> <<>>, arg |-> Undefined, threw |-> FALSE]

\* the page once the script has run: the input section is shown, the loading
\* indicator, the results and the error message are hidden, the /health
\* request of the load handler is unanswered
Init ==
    /\ selectedSkills = <<>>
    /\ interests = <<>>
    /\ hiddenOptions = {}
    /\ inputHidden = FALSE
    /\ resultsHidden = TRUE
    /\ loadingHidden = TRUE
    /\ errorHidden = TRUE
    /\ errorText = ""
    /\ pending = <<>>
    /\ health = "pending"
    /\ settled = <<>>
    /\ availableSkills = skillOptions
    /\ skillSelectOptions = skillOptions
    /\ skillsLoad = "done"
    /\ btnClass = [b \in Buttons |-> {}]
    /\ btnLabel = [b \in Buttons |-> Label(b)]
    /\ feedbackPending = <<>>
    /\ timers = <<>>
    /\ userSkillsDisplay = <<>>
    /\ modelInfo = ""
    /\ footer = ""
    /\ lastOp = [op |-> "load", name |-> <<>>, arg |-> Undefined, threw |-> FALSE]

\* the skill list driven through its operations alone
NextAgg ==
    \/ \E n \in NameArgs, a \in LevelArgs : AddSkill(n, a)
    \/ \E n \in {skillOptions[i] : i \in 1..Len(skillOptions)} \cup {<<>>},
          e \in ExperienceValues : AddSkillBtnClick(n, e)
    \/ \E n \in NameArgs : RemoveSkill(n)
    \/ \E n \in NameArgs, v \in LevelStrings : UpdateSkillExperience(n, v)
    \/ ResetBtnClick
    \/ \E t \in TestNames : FillTestCase(t)

SpecAgg == Init /\ [][NextAgg]_vars

\* the page as a user drives it: a control is used only while the section
\* that holds it is shown (the form and its add button in #input-section, the
\* reset button in #results-section, the dismiss button in #error-message);
\* removeSkill, updateSkillExperience and fillTestCase are global functions
Next ==
    \/ /\ ~inputHidden
       /\ \E n \in {skillOptions[1], <<>>}, e \in ExperienceValues :
              AddSkillBtnClick(n, e)
    \/ RemoveSkill(skillOptions[1])
    \/ UpdateSkillExperience(skillOptions[1], <<"x">>)
    \/ FillTestCase("cs")
    \/ /\ ~resultsHidden
       /\ ResetBtnClick
    \/ /\ ~inputHidden
       /\ \E k \in KValues, m \in ModelTypes : Submit(k, m)
    \/ \E i \in 1..Len(pending), o \in Outcomes, a \in DataApproaches :
          Response(i, o, a)
    \/ /\ ~errorHidden
       /\ HideError
    \/ \E o \in {"ok", "notOk", "networkError"} : HealthCheck(o)

Spec == Init /\ [][Next]_vars

\* values the form fields k and model_type can hand to the submit handler
FormKValues == {<<"5">>, <<"0">>, <<>>}
FormModelTypes == {"", "content-based", "svd"}

\* one test case submitted and answered with each body a server can send
NextResp ==
    \/ FillTestCase("cs")
    \/ /\ ~inputHidden
       /\ \E k \in FormKValues, m \in FormModelTypes : Submit(k, m)
    \/ \E i \in 1..Len(pending), o \in BodyOutcomes, a \in DataApproaches :
          Response(i, o, a)
    \/ /\ ~errorHidden
       /\ HideError
    \/ /\ ~resultsHidden
       /\ ResetBtnClick

SpecResp == Init /\ [][NextResp]_vars

\* the skill list driven with names that include the empty string
EmptyOrListed == {<<>>, s_python, s_machine_learning}

\* a name with a leading space and a capital letter
s_Python_spaced == <<" ", "P", "y", "t", "h", "o", "n">>

NextNames ==
    \/ \E n \in EmptyOrListed \cup {s_Python_spaced}, a \in LevelArgs :
          AddSkill(n, a)
    \/ \E n \in {<<>>, skillOptions[2]}, e \in ExperienceValues :
          AddSkillBtnClick(n, e)
    \/ \E n \in EmptyOrListed : RemoveSkill(n)

SpecNames == Init /\ [][NextNames]_vars

\* the user dismisses an error message that is shown
DismissError ==
    /\ ~errorHidden
    /\ HideError

\* the user picks a test case while the form is shown and no error is
RefillForm ==
    /\ ~inputHidden
    /\ errorHidden
    /\ FillTestCase("cs")

\* every test case, and a name that is none, filled into lists that the add
\* button, updateSkillExperience, removeSkill and reset have changed
FillNames == DOMAIN testCases \cup {"law"}

NextFill ==
    \/ \E t \in FillNames : FillTestCase(t)
    \/ \E e \in ExperienceValues : AddSkillBtnClick(skillOptions[2], e)
    \/ \E v \in {<<"x">>, <<"5">>} : UpdateSkillExperience(skillOptions[2], v)
    \/ RemoveSkill(skillOptions[2])
    \/ ResetBtnClick

SpecFill == Init /\ [][NextFill]_vars

----------------------------------------------------------------------------
(* The skills list: loadSkills, populateSkillSelect *)

\* the characters of U+0020..U+005F and of U+0061..U+007E in the order of
\* their code units
PrintableLow ==
    <<" ", "!", "\"", "#", "$", "%", "&", "'", "(", ")", "*", "+", ",", "-",
      ".", "/", "0", "1", "2", "3", "4", "5", "6", "7", "8", "9", ":", ";",
      "<", "=", ">", "?", "@", "A", "B", "C", "D", "E", "F", "G", "H", "I",
      "J", "K", "L", "M", "N", "O", "P", "Q", "R", "S", "T", "U", "V", "W",
      "X", "Y", "Z", "[", "\\", "]", "^", "_">>
PrintableHigh ==
    <<"a", "b", "c", "d", "e", "f", "g", "h", "i", "j", "k", "l", "m", "n",
      "o", "p", "q", "r", "s", "t", "u", "v", "w", "x", "y", "z", "{", "|",
      "}", "~">>

\* the UTF-16 code unit of a character
CodeUnit(c) ==
    CASE c = "\t" -> 9
      [] c = "\n" -> 10
      [] c = "\r" -> 13
      [] \E i \in 1..Len(PrintableLow) : PrintableLow[i] = c ->
             31 + (CHOOSE i \in 1..Len(PrintableLow) : PrintableLow[i] = c)
      [] OTHER ->
             96 + (CHOOSE i \in 1..Len(PrintableHigh) : PrintableHigh[i] = c)

\* the comparison of Array.prototype.sort() without a compare function:
\* strings are ordered by their code units, a proper prefix comes first
RECURSIVE StringLess(_, _)
StringLess(a, b) ==
    IF b = <<>> THEN FALSE
    ELSE IF a = <<>> THEN TRUE
    ELSE IF a[1] = b[1] THEN StringLess(Tail(a), Tail(b))
    ELSE CodeUnit(a[1]) < CodeUnit(b[1])

\* array.sort(): the entry at position k is the one with k - 1 entries before
\* it, equal entries keeping their order
Sort(array) ==
    LET n == Len(array)
        before(i) == {j \in 1..n : \/ StringLess(array[j], array[i])
                                   \/ array[j] = array[i] /\ j < i}
        rank == [i \in 1..n |-> Cardinality(before(i)) + 1]
    IN  [k \in 1..n |-> array[CHOOSE i \in 1..n : rank[i] = k]]

\* text.split('\n')
RECURSIVE Split(_)
Split(text) ==
    IF \A i \in 1..Len(text) : text[i] # "\n"
    THEN <<text>>
    ELSE LET i == CHOOSE j \in 1..Len(text) :
                      text[j] = "\n" /\ \A h \in 1..(j - 1) : text[h] # "\n"
         IN  <<SubSeq(text, 1, i - 1)>> \o Split(SubSeq(text, i + 1, Len(text)))

\* array.filter(skill => skill.length > 0)
RECURSIVE FilterNonEmpty(_)
FilterNonEmpty(array) ==
    IF array = <<>> THEN <<>>
    ELSE IF Len(Head(array)) > 0
         THEN <<Head(array)>> \o FilterNonEmpty(Tail(array))
         ELSE FilterNonEmpty(Tail(array))

\* text.split('\n').map(skill => skill.trim())
\*     .filter(skill => skill.length > 0).sort()
ParseSkills(text) ==
    LET lines == Split(text)
    IN  Sort(FilterNonEmpty([i \in 1..Len(lines) |-> Trim(lines[i])]))

\* the list of the catch block of loadSkills, before its .sort()
fallbackSkills ==
    << <<"p", "y", "t", "h", "o", "n">>,
       <<"j", "a", "v", "a", "s", "c", "r", "i", "p", "t">>,
       <<"j", "a", "v", "a">>,
       <<"c", "+", "+">>,
       <<"d", "a", "t", "a", " ", "a", "n", "a", "l", "y", "s", "i", "s">>,
       <<"m", "a", "c", "h", "i", "n", "e", " ", "l", "e", "a", "r", "n", "i", "n", "g">>,
       <<"w", "e", "b", " ", "d", "e", "v", "e", "l", "o", "p", "m", "e", "n", "t">>,
       <<"m", "o", "b", "i", "l", "e", " ", "d", "e", "v", "e", "l", "o", "p", "m", "e", "n", "t">>,
       <<"d", "e", "s", "i", "g", "n">>,
       <<"m", "a", "r", "k", "e", "t", "i", "n", "g">>,
       <<"a", "d", "o", "b", "e", " ", "p", "h", "o", "t", "o", "s", "h", "o", "p">>,
       <<"p", "r", "o", "j", "e", "c", "t", " ", "m", "a", "n", "a", "g", "e", "m", "e", "n", "t">>,
       <<"b", "u", "s", "i", "n", "e", "s", "s">>,
       <<"f", "i", "n", "a", "n", "c", "e">>,
       <<"w", "r", "i", "t", "i", "n", "g">>,
       <<"c", "o", "m", "m", "u", "n", "i", "c", "a", "t", "i", "o", "n">>,
       <<"l", "e", "a", "d", "e", "r", "s", "h", "i", "p">>,
       <<"r", "e", "s", "e", "a", "r", "c", "h">>,
       <<"b", "i", "o", "l", "o", "g", "y">>,
       <<"c", "h", "e", "m", "i", "s", "t", "r", "y">>,
       <<"p", "h", "y", "s", "i", "c", "s">>,
       <<"m", "a", "t", "h", "e", "m", "a", "t", "i", "c", "s">>,
       <<"s", "t", "a", "t", "i", "s", "t", "i", "c", "s">>,
       <<"e", "c", "o", "n", "o", "m", "i", "c", "s">>,
       <<"a", "c", "c", "o", "u", "n", "t", "i", "n", "g">>,
       <<"m", "a", "n", "a", "g", "e", "m", "e", "n", "t">>,
       <<"s", "a", "l", "e", "s">>,
       <<"c", "r", "e", "a", "t", "i", "v", "i", "t", "y">>,
       <<"p", "r", "o", "b", "l", "e", "m", " ", "s", "o", "l", "v", "i", "n", "g">>,
       <<"c", "r", "i", "t", "i", "c", "a", "l", " ", "t", "h", "i", "n", "k", "i", "n", "g">>,
       <<"t", "e", "a", "m", "w", "o", "r", "k">>,
       <<"p", "u", "b", "l", "i", "c", " ", "s", "p", "e", "a", "k", "i", "n", "g">>,
       <<"s", "o", "c", "i", "a", "l", " ", "m", "e", "d", "i", "a">>,
       <<"c", "o", "n", "t", "e", "n", "t", " ", "c", "r", "e", "a", "t", "i", "o", "n">>,
       <<"v", "i", "d", "e", "o", " ", "e", "d", "i", "t", "i", "n", "g">>,
       <<"g", "r", "a", "p", "h", "i", "c", " ", "d", "e", "s", "i", "g", "n">>,
       <<"u", "i", "/", "u", "x", " ", "d", "e", "s", "i", "g", "n">>,
       <<"d", "a", "t", "a", "b", "a", "s", "e">>,
       <<"s", "q", "l">>,
       <<"c", "l", "o", "u", "d", " ", "c", "o", "m", "p", "u", "t", "i", "n", "g">>,
       <<"c", "y", "b", "e", "r", "s", "e", "c", "u", "r", "i", "t", "y">>,
       <<"a", "r", "t", "i", "f", "i", "c", "i", "a", "l", " ", "i", "n", "t", "e", "l", "l", "i", "g", "e", "n", "c", "e">>,
       <<"d", "e", "e", "p", " ", "l", "e", "a", "r", "n", "i", "n", "g">>,
       <<"n", "e", "u", "r", "a", "l", " ", "n", "e", "t", "w", "o", "r", "k", "s">>,
       <<"c", "o", "m", "p", "u", "t", "e", "r", " ", "v", "i", "s", "i", "o", "n">>,
       <<"n", "a", "t", "u", "r", "a", "l", " ", "l", "a", "n", "g", "u", "a", "g", "e", " ", "p", "r", "o", "c", "e", "s", "s", "i", "n", "g">>,
       <<"r", "o", "b", "o", "t", "i", "c", "s">>,
       <<"e", "m", "b", "e", "d", "d", "e", "d", " ", "s", "y", "s", "t", "e", "m", "s">>,
       <<"e", "l", "e", "c", "t", "r", "o", "n", "i", "c", "s">>,
       <<"m", "e", "c", "h", "a", "n", "i", "c", "a", "l", " ", "e", "n", "g", "i", "n", "e", "e", "r", "i", "n", "g">>,
       <<"c", "i", "v", "i", "l", " ", "e", "n", "g", "i", "n", "e", "e", "r", "i", "n", "g">>,
       <<"a", "r", "c", "h", "i", "t", "e", "c", "t", "u", "r", "e">>,
       <<"a", "r", "t", " ", "h", "i", "s", "t", "o", "r", "y">>,
       <<"m", "u", "s", "i", "c", " ", "t", "h", "e", "o", "r", "y">>,
       <<"f", "i", "l", "m", " ", "p", "r", "o", "d", "u", "c", "t", "i", "o", "n">>,
       <<"p", "h", "o", "t", "o", "g", "r", "a", "p", "h", "y">>,
       <<"c", "r", "e", "a", "t", "i", "v", "e", " ", "w", "r", "i", "t", "i", "n", "g">> >>

\* the bodies a response to the request for filtered_skills.txt can carry have
\* at most this many characters
MaxFileLen == 3
FileChars == {"b", "a", " ", "\n"}
RECURSIVE Texts(_)
Texts(n) ==
    IF n = 0 THEN {<<>>}
    ELSE Texts(n - 1) \cup
         {Append(t, c) : t \in {u \in Texts(n - 1) : Len(u) = n - 1},
                         c \in FileChars}
FileTexts == Texts(MaxFileLen)

\* how the request for filtered_skills.txt ends: fetch rejects, the response
\* arrives with a success status or another one, the read of its body rejects
LoadOutcomes == {"networkError", "ok", "notOk", "bodyError"}

\* loadSkills from the resumption of await fetch to its end: the status of the
\* response is not read, any body that arrives is parsed; a rejection of
\* fetch or of response.text() reaches the catch block. Either branch ends
\* with populateSkillSelect, which appends one option per entry
LoadSkills(outcome, text) ==
    /\ skillsLoad = "pending"
    /\ skillsLoad' = "done"
    /\ availableSkills' = IF outcome \in {"ok", "notOk"}
                          THEN ParseSkills(text)
                          ELSE Sort(fallbackSkills)
    /\ skillSelectOptions' = skillSelectOptions \o availableSkills'
    /\ lastOp' = [op |-> "loadSkills", name |-> <<>>,
                  arg |-> [outcome |-> outcome, text |-> text],
                  threw |-> FALSE]
    /\ UNCHANGED <<aggVars, viewVars, netVars, feedbackVars, shownVars>>

\* the page while loadSkills() awaits its fetch: the list and the dropdown
\* (its placeholder left out) are empty
InitLoad ==
    /\ selectedSkills = <<>>
    /\ interests = <<>>
    /\ hiddenOptions = {}
    /\ inputHidden = FALSE
    /\ resultsHidden = TRUE
    /\ loadingHidden = TRUE
    /\ errorHidden = TRUE
    /\ errorText = ""
    /\ pending = <<>>
    /\ health = "pending"
    /\ settled = <<>>
    /\ availableSkills = <<>>
    /\ skillSelectOptions = <<>>
    /\ skillsLoad = "pending"
    /\ btnClass = [b \in Buttons |-> {}]
    /\ btnLabel = [b \in Buttons |-> Label(b)]
    /\ feedbackPending = <<>>
    /\ timers = <<>>
    /\ userSkillsDisplay = <<>>
    /\ modelInfo = ""
    /\ footer = ""
    /\ lastOp = [op |-> "load", name |-> <<>>, arg |-> Undefined, threw |-> FALSE]

NextLoad ==
    \/ \E o \in LoadOutcomes, t \in FileTexts :
           \* no body is read when fetch or response.text() rejects
           /\ o \in {"ok", "notOk"} \/ t = <<>>
           /\ LoadSkills(o, t)
    \/ \E o \in {"ok", "notOk", "networkError"} : HealthCheck(o)

SpecLoad == InitLoad /\ [][NextLoad]_vars

----------------------------------------------------------------------------
(* Feedback: submitFeedback *)

\* submitFeedback up to the fetch call, run by the onclick of a button
SubmitFeedback(button) ==
    /\ Len(feedbackPending) + Len(timers) < MaxFeedback
    /\ feedbackPending' = Append(feedbackPending,
                                 [button |-> button,
                                  feedbackType |-> FeedbackType(button)])
    /\ lastOp' = [op |-> "feedbackSent", name |-> <<>>,
                  arg |-> [button |-> button], threw |-> FALSE]
    /\ UNCHANGED <<aggVars, viewVars, netVars, loadVars, btnClass, btnLabel,
                   timers, shownVars>>

\* a submitFeedback that leaves the classes of the siblings as they are
FeedbackResponseKeepsSiblings(i, outcome) ==
    LET request == feedbackPending[i]
        button == request.button
    IN  /\ i \in 1..Len(feedbackPending)
        /\ feedbackPending' = SubSeq(feedbackPending, 1, i - 1)
                                  \o SubSeq(feedbackPending, i + 1,
                                            Len(feedbackPending))
        /\ IF outcome = "ok"
           THEN /\ btnClass' = [btnClass EXCEPT ![button] =
                                    (@ \ {"clicked", "rejected"})
                                        \cup {request.feedbackType}]
                /\ btnLabel' = [btnLabel EXCEPT ![button] = Recorded]
                /\ timers' = Append(timers,
                                    [button |-> button,
                                     originalText |-> btnLabel[button]])
           ELSE UNCHANGED <<btnClass, btnLabel, timers>>
        /\ lastOp' = [op |-> "feedbackResponse", name |-> <<>>,
                      arg |-> [outcome |-> outcome, button |-> button,
                               feedbackType |-> request.feedbackType,
                               before |-> btnClass],
                      threw |-> FALSE]
        /\ UNCHANGED <<aggVars, viewVars, netVars, loadVars, shownVars>>

\* submitFeedback from the resumption of await fetch to its end: on an ok
\* response every .feedback-btn of the card loses clicked and rejected, the
\* button gets feedbackType, its text is kept for the timer and replaced; on
\* another response or a rejected fetch nothing is written
FeedbackResponse(i, outcome) ==
    LET request == feedbackPending[i]
        button == request.button
    IN  /\ i \in 1..Len(feedbackPending)
        /\ feedbackPending' = SubSeq(feedbackPending, 1, i - 1)
                                  \o SubSeq(feedbackPending, i + 1,
                                            Len(feedbackPending))
        /\ IF outcome = "ok"
           THEN /\ btnClass' = [b \in Buttons |->
                                   IF b = button
                                   THEN (btnClass[b] \ {"clicked", "rejected"})
                                            \cup {request.feedbackType}
                                   ELSE btnClass[b] \ {"clicked", "rejected"}]
                /\ btnLabel' = [btnLabel EXCEPT ![button] = Recorded]
                /\ timers' = Append(timers,
                                    [button |-> button,
                                     originalText |-> btnLabel[button]])
           ELSE UNCHANGED <<btnClass, btnLabel, timers>>
        /\ lastOp' = [op |-> "feedbackResponse", name |-> <<>>,
                      arg |-> [outcome |-> outcome, button |-> button,
                               feedbackType |-> request.feedbackType,
                               before |-> btnClass],
                      threw |-> FALSE]
        /\ UNCHANGED <<aggVars, viewVars, netVars, loadVars, shownVars>>

\* the callback of setTimeout(..., 2000): timers of one delay fire in the
\* order they were set
FeedbackTimer ==
    /\ timers # <<>>
    /\ btnLabel' = [btnLabel EXCEPT ![Head(timers).button] =
                        Head(timers).originalText]
    /\ timers' = Tail(timers)
    /\ lastOp' = [op |-> "feedbackTimer", name |-> <<>>,
                  arg |-> [button |-> Head(timers).button], threw |-> FALSE]
    /\ UNCHANGED <<aggVars, viewVars, netVars, loadVars, btnClass,
                   feedbackPending, shownVars>>

\* a rendered card and its feedback buttons
NextFeedback ==
    \/ \E b \in FeedbackButtons : SubmitFeedback(b)
    \/ \E i \in 1..MaxFeedback, o \in FeedbackOutcomes : FeedbackResponse(i, o)
    \/ FeedbackTimer

SpecFeedback == Init /\ [][NextFeedback]_vars

\* the page with each kind of error: a rejected submit, a failed request, a
\* failed health check, and a level that is no number
NextRecover ==
    \/ /\ ~inputHidden
       /\ \E e \in ExperienceValues : AddSkillBtnClick(skillOptions[1], e)
    \/ UpdateSkillExperience(skillOptions[1], <<"x">>)
    \/ FillTestCase("cs")
    \/ /\ ~resultsHidden
       /\ ResetBtnClick
    \/ /\ ~inputHidden
       /\ \E k \in KValues, m \in ModelTypes : Submit(k, m)
    \/ \E i \in 1..Len(pending), o \in {"networkError", "ok"} : Response(i, o, "")
    \/ DismissError
    \/ \E o \in {"ok", "networkError"} : HealthCheck(o)

SpecRecover == Init /\ [][NextRecover]_vars

\* the page driven through its visible controls alone, with levels of the
\* experience dropdown: the add button and the submit while #input-section is
\* shown, the reset button while #results-section is shown, the dismiss button
\* while #error-message is shown; requests and the health check are answered
\* at any time
NextRace ==
    \/ /\ ~inputHidden
       /\ \E i \in 1..Len(skillOptions), e \in ExperienceValues :
              AddSkillBtnClick(skillOptions[i], e)
    \/ /\ ~inputHidden
       /\ \E k \in KValues, m \in ModelTypes : Submit(k, m)
    \/ \E i \in 1..Len(pending), o \in {"networkError", "ok"} : Response(i, o, "")
    \/ DismissError
    \/ /\ ~resultsHidden
       /\ ResetBtnClick
    \/ \E o \in {"ok", "notOk", "networkError"} : HealthCheck(o)

SpecRace == Init /\ [][NextRace]_vars

\* a test case submitted; the server may never answer, and a fetch that has
\* settled resumes its handler
NextLive ==
    \/ FillTestCase("cs")
    \/ /\ ~inputHidden
       /\ \E k \in KValues, m \in ModelTypes : Submit(k, m)
    \/ \E i \in 1..Len(pending), o \in Outcomes, a \in DataApproaches :
          FetchSettles(i, o, a)
    \/ ResumeAfterFetch
    \/ /\ ~errorHidden
       /\ HideError
    \/ /\ ~resultsHidden
       /\ ResetBtnClick

\* the event loop runs the continuation of every promise that has settled; no
\* timer or abort signal of the page makes a fetch settle
SpecLive == Init /\ [][NextLive]_vars /\ WF_vars(ResumeAfterFetch)

\* updateInterestsInput applied to each list of at most MaxQueryLen entries
\* with distinct names and levels 1 to 5
MaxQueryLen == 2
QueryNames == {s_a, s_b, s_python, s_machine_learning}
QueryLists ==
    UNION {{q \in [1..n -> [name : QueryNames, experience : {Num(l) : l \in 1..5}]] :
               \A i, j \in 1..n : i # j => q[i].name # q[j].name} :
           n \in 0..MaxQueryLen}

InitQuery ==
    /\ selectedSkills \in QueryLists
    /\ interests = <<>>
    /\ hiddenOptions = SelectOptionsHidden(selectedSkills)
    /\ inputHidden = FALSE
    /\ resultsHidden = TRUE
    /\ loadingHidden = TRUE
    /\ errorHidden = TRUE
    /\ errorText = ""
    /\ pending = <<>>
    /\ health = "pending"
    /\ settled = <<>>
    /\ availableSkills = skillOptions
    /\ skillSelectOptions = skillOptions
    /\ skillsLoad = "done"
    /\ btnClass = [b \in Buttons |-> {}]
    /\ btnLabel = [b \in Buttons |-> Label(b)]
    /\ feedbackPending = <<>>
    /\ timers = <<>>
    /\ userSkillsDisplay = <<>>
    /\ modelInfo = ""
    /\ footer = ""
    /\ lastOp = [op |-> "load", name |-> <<>>, arg |-> Undefined, threw |-> FALSE]

\* a call of updateInterestsInput()
UpdateInterests ==
    /\ lastOp.op = "load"
    /\ LET upd == UpdateInterestsInput(selectedSkills, interests)
       IN  /\ interests' = upd.value
           /\ lastOp' = [op |-> "updateInterestsInput", name |-> <<>>,
                         arg |-> Undefined, threw |-> upd.threw]
    /\ UNCHANGED <<selectedSkills, hiddenOptions, viewVars, netVars, loadVars,
                   feedbackVars, shownVars>>

SpecQuery == InitQuery /\ [][UpdateInterests]_vars

----------------------------------------------------------------------------
(* Claims *)

Adds == {"addSkill", "addSkillBtn"}
ValidLevel(v) == IsNum(v) /\ v.num \in 1..5
LevelOf(skills, n) == skills[FindSkill(skills, n)].experience
EntriesNamed(skills, n) == {i \in 1..Len(skills) : skills[i].name = n}

\* the level an add passes on: addSkill applies its default, the add button
\* passes what it parsed
PassedLevel(op) == IF op.op = "addSkill" THEN DefaultLevel(op.arg) ELSE op.arg

\* C1: in every state reached through addSkill, the add button, removeSkill,
\* updateSkillExperience, reset and fillTestCase, selectedSkills holds at most
\* one entry per skill name.
C1_OneEntryPerName ==
    \A i, j \in 1..Len(selectedSkills) :
        i # j => selectedSkills[i].name # selectedSkills[j].name

\* addSkill was just called with the name of an entry that another add had
\* made with another level, and the list holds a second entry
C1_Witness ==
    /\ lastOp.op = "addSkill"
    /\ Len(selectedSkills) >= 2
    /\ HasSkill(selectedSkills, lastOp.name)
    /\ LevelOf(selectedSkills, lastOp.name) = Num(4)

\* the characters of the segment of one entry: level copies of the name with
\* one space between two copies
SegLen(skill) ==
    IF skill.experience.num = 0 THEN 0
    ELSE skill.experience.num * Len(skill.name) + (skill.experience.num - 1)

\* the number of characters of the query before the segment of entry i
RECURSIVE SegStart(_, _)
SegStart(skills, i) ==
    IF i = 1 THEN 0
    ELSE SegStart(skills, i - 1) + SegLen(skills[i - 1]) + 2

\* C2: updateInterestsInput yields, for each entry in insertion order, the name
\* repeated level times with single spaces between, the segments joined by a
\* comma and a space; [(a,2),(b,1)] gives "a a, b" and [(python,4),(machine
\* learning,3)] gives python four times, then machine learning three times.
C2_WeightedQuery ==
    lastOp.op = "updateInterestsInput" =>
        LET q == interests
            n == Len(selectedSkills)
        IN  /\ Len(q) = IF n = 0 THEN 0
                        ELSE SegStart(selectedSkills, n) + SegLen(selectedSkills[n])
            /\ \A i \in 1..n :
                 LET name == selectedSkills[i].name
                     start == SegStart(selectedSkills, i)
                     len == SegLen(selectedSkills[i])
                 IN  /\ \A p \in 1..len :
                            q[start + p] =
                                IF p % (Len(name) + 1) = 0 THEN " "
                                ELSE name[p % (Len(name) + 1)]
                     /\ i < n => /\ q[start + len + 1] = ","
                                 /\ q[start + len + 2] = " "
            /\ selectedSkills = <<Skill(s_a, 2), Skill(s_b, 1)>>
                   => q = <<"a", " ", "a", ",", " ", "b">>
            /\ selectedSkills = <<Skill(s_python, 4), Skill(s_machine_learning, 3)>>
                   => q = s_python \o <<" ">> \o s_python \o <<" ">> \o s_python
                          \o <<" ">> \o s_python \o <<",", " ">>
                          \o s_machine_learning \o <<" ">> \o s_machine_learning
                          \o <<" ">> \o s_machine_learning

\* the query of [(a,2),(b,1)] has been computed
C2_Witness ==
    /\ lastOp.op = "updateInterestsInput"
    /\ selectedSkills = <<Skill(s_a, 2), Skill(s_b, 1)>>
    /\ interests = <<"a", " ", "a", ",", " ", "b">>

\* C3: after every add, remove and level update the hidden interests field
\* holds the weighted query of the current selectedSkills.
C3_QueryNeverStale ==
    lastOp.op \in Adds \cup {"removeSkill", "updateSkillExperience"} =>
        /\ ~QueryThrows(selectedSkills)
        /\ interests = WeightedQuery(selectedSkills)

\* C4: an add of a name that is absent appends one entry with the level
\* passed; an add of a name that is present, whatever level it passes, changes
\* neither the list, its order nor the interests field, and the list keeps
\* exactly one entry of that name.
C4_SecondAddIsNoOp ==
    [][lastOp'.op \in Adds /\ (lastOp'.op = "addSkill" \/ lastOp'.name # <<>>) =>
         IF HasSkill(selectedSkills, lastOp'.name)
         THEN /\ selectedSkills' = selectedSkills
              /\ interests' = interests
              /\ Cardinality(EntriesNamed(selectedSkills', lastOp'.name)) = 1
         ELSE selectedSkills' =
                  Append(selectedSkills, [name |-> lastOp'.name,
                                          experience |-> PassedLevel(lastOp')])
      ]_vars

\* the add button was just used for a name whose entry holds the level of an
\* earlier addSkill call
C4_Witness ==
    /\ lastOp.op = "addSkillBtn"
    /\ lastOp.arg = Num(4)
    /\ HasSkill(selectedSkills, lastOp.name)
    /\ LevelOf(selectedSkills, lastOp.name) = Num(3)

\* C5: updateSkillExperience of a listed skill with a value that is no integer
\* of 1..5 reports an error and leaves selectedSkills and the interests field
\* unchanged.
C5_InvalidLevelRejected ==
    [][(/\ lastOp'.op = "updateSkillExperience"
        /\ ~ValidLevel(lastOp'.arg)
        /\ HasSkill(selectedSkills, lastOp'.name)) =>
         /\ selectedSkills' = selectedSkills
         /\ interests' = interests
         /\ lastOp'.threw
      ]_vars

\* C6: every entry of selectedSkills has a level that is an integer of 1..5.
C6_LevelsInRange ==
    \A i \in 1..Len(selectedSkills) : ValidLevel(selectedSkills[i].experience)

Submits == {"submitRejected", "submitSent"}

\* C7: a submit while selectedSkills is empty sends no request and shows the
\* message asking for at least one skill, also when the interests field still
\* holds an earlier query.
C7_EmptySubmitBlocked ==
    [][lastOp'.op \in Submits /\ selectedSkills = <<>> =>
         /\ lastOp'.op = "submitRejected"
         /\ pending' = pending
         /\ ~errorHidden'
         /\ errorText' = AddSkillMessage
      ]_vars

\* a submit was just rejected for an empty list while the interests field
\* held the query of the list that reset emptied
C7_Witness ==
    /\ lastOp.op = "submitRejected"
    /\ selectedSkills = <<>>
    /\ Trim(interests) # <<>>
    /\ pending = <<>>
    /\ ~errorHidden
    /\ errorText = AddSkillMessage

\* C8: at most one /recommend request is unanswered at any time.
C8_OneOutstandingRequest == Len(pending) <= 1

\* C9: a request that a submit sends carries as interests the weighted query
\* of selectedSkills as it is at that submit.
C9_RequestCarriesQuery ==
    lastOp.op = "submitSent" =>
        /\ ~QueryThrows(selectedSkills)
        /\ pending[Len(pending)].interests = WeightedQuery(selectedSkills)

\* C10: when a request fails, the error message is shown with the text of the
\* failure and the loading indicator is hidden; dismissing the error then
\* shows the input section again, with the error and the loading indicator
\* hidden and the skill list and interests field as they were.
C10_FailureReturnsToInput ==
    [][/\ lastOp'.op = "responseFailed" =>
            /\ ~errorHidden'
            /\ errorText' \in {FailureMessage(o) : o \in Outcomes \ {"ok"}}
            /\ loadingHidden'
       /\ lastOp.op = "responseFailed" /\ lastOp'.op = "hideError" =>
            /\ ~inputHidden'
            /\ errorHidden'
            /\ loadingHidden'
            /\ resultsHidden'
            /\ selectedSkills' = selectedSkills
            /\ interests' = interests
      ]_vars

\* the error of a network failure was shown and has been dismissed
C10_Witness ==
    /\ lastOp.op = "hideError"
    /\ errorText = FailureMessage("networkError")
    /\ ~inputHidden
    /\ errorHidden
    /\ loadingHidden
    /\ pending = <<>>

Responses == {"responseOk", "responseFailed"}

\* C11: the submit handler never changes selectedSkills, neither when it
\* rejects the submit or sends the request nor when the answer is handled.
C11_SubmitKeepsSkills ==
    [][lastOp'.op \in Submits \cup Responses => selectedSkills' = selectedSkills]_vars

\* the answer to a request for the four skills of a test case was just shown
C11_Witness ==
    /\ lastOp.op = "responseOk"
    /\ Len(selectedSkills) = 4
    /\ userSkillsDisplay = selectedSkills
    /\ ~resultsHidden

\* q without one of its elements
IsOneRemoved(q, r) ==
    \E i \in 1..Len(q) : r = SubSeq(q, 1, i - 1) \o SubSeq(q, i + 1, Len(q))

\* C13: a submit sends at most one request, the handling of an answer (a
\* failure included) takes that request off the unanswered ones and sends
\* none, and no other handler sends one.
C13_NoAutomaticRetry ==
    [][/\ lastOp'.op = "submitSent" =>
            /\ Len(pending') = Len(pending) + 1
            /\ SubSeq(pending', 1, Len(pending)) = pending
       /\ lastOp'.op \in Responses => IsOneRemoved(pending, pending')
       /\ lastOp'.op \notin Responses \cup {"submitSent"} => pending' = pending
      ]_vars

\* a request has failed and no request is left unanswered
C13_Witness ==
    /\ lastOp.op = "responseFailed"
    /\ pending = <<>>
    /\ ~errorHidden
    /\ errorText = FailureMessage("notOkNoDetail")

\* the answers that are not a success and the successes with a malformed body
NonSuccess == {"networkError", "notOkDetail", "notOkNoDetail"}
Malformed == {"badBody", "okNoList", "okNotList", "okItemNoSkills", "okItemNoName"}

\* C12: an answer that is not a success, or a success whose body is malformed,
\* ends with the error message shown, the loading indicator hidden and the
\* results section hidden.
C12_BadResponseEndsInError ==
    [][(/\ lastOp'.op \in Responses
        /\ lastOp'.arg.outcome \in NonSuccess \cup Malformed) =>
            /\ ~errorHidden'
            /\ loadingHidden'
            /\ resultsHidden'
      ]_vars

\* the entries of skills that are not named n, in their order
Others(skills, n) == SelectSeq(skills, LAMBDA s : s.name # n)

\* C14: removeSkill(n) leaves no entry named n, changes nothing in the list
\* when there was none, and keeps every other entry with its level and the
\* order of the entries that remain.
C14_RemoveKeepsOthers ==
    [][lastOp'.op = "removeSkill" =>
            /\ ~HasSkill(selectedSkills', lastOp'.name)
            /\ ~HasSkill(selectedSkills, lastOp'.name) =>
                   selectedSkills' = selectedSkills
            /\ Others(selectedSkills', lastOp'.name) =
                   Others(selectedSkills, lastOp'.name)
      ]_vars

\* the second of the four skills of a test case was just removed
C14_Witness ==
    /\ lastOp.op = "removeSkill"
    /\ lastOp.name = s_machine_learning
    /\ selectedSkills = <<testCases["cs"][1], testCases["cs"][3], testCases["cs"][4]>>
    /\ testCases["cs"][2].name = s_machine_learning

\* the characters of q end with the segment of the last entry of skills, after
\* the separator when the entry is not the only one
EndsWithLastSegment(q, skills) ==
    LET seg == Segment(skills[Len(skills)])
        tail == IF Len(skills) > 1 THEN <<",", " ">> \o seg ELSE seg
    IN  /\ Len(q) >= Len(tail)
        /\ SubSeq(q, Len(q) - Len(tail) + 1, Len(q)) = tail

\* C15: an add of n that follows a removeSkill(n) that found an entry named n
\* leaves exactly one entry named n, with the level passed, at the end of the
\* list, and the interests field ends with the segment of that entry.
C15_RemoveThenAddIsLast ==
    [][(/\ lastOp.op = "removeSkill"
        /\ lastOp.arg.found
        /\ lastOp'.op \in Adds
        /\ lastOp'.name = lastOp.name
        /\ lastOp'.name # <<>>) =>
            /\ Cardinality(EntriesNamed(selectedSkills', lastOp'.name)) = 1
            /\ selectedSkills'[Len(selectedSkills')] =
                   [name |-> lastOp'.name, experience |-> PassedLevel(lastOp')]
            /\ EndsWithLastSegment(interests', selectedSkills')
      ]_vars

\* C16: updateSkillExperience of a listed skill n with a level of 1..5 sets the
\* level of the entry of n, leaves the entry in its place and every other
\* entry as it was, and the interests field holds the weighted query of the
\* list with the new level.
C16_SetLevelChangesOnlyLevel ==
    [][(/\ lastOp'.op = "updateSkillExperience"
        /\ ValidLevel(lastOp'.arg)
        /\ HasSkill(selectedSkills, lastOp'.name)) =>
            /\ Len(selectedSkills') = Len(selectedSkills)
            /\ \A i \in 1..Len(selectedSkills) :
                   selectedSkills'[i] =
                       IF selectedSkills[i].name = lastOp'.name
                       THEN [name |-> lastOp'.name, experience |-> lastOp'.arg]
                       ELSE selectedSkills[i]
            /\ ~QueryThrows(selectedSkills')
            /\ interests' = WeightedQuery(selectedSkills')
      ]_vars

\* C17: updateSkillExperience of a name that is not listed, whatever the level,
\* changes neither the list nor the interests field and makes no entry for
\* the name.
C17_SetLevelOnAbsentIsNoOp ==
    [][(/\ lastOp'.op = "updateSkillExperience"
        /\ ~HasSkill(selectedSkills, lastOp'.name)) =>
            /\ selectedSkills' = selectedSkills
            /\ interests' = interests
            /\ ~HasSkill(selectedSkills', lastOp'.name)
      ]_vars

\* updateSkillExperience was just called with a valid level for a name that
\* the list, which holds another skill, does not hold
C17_Witness ==
    /\ lastOp.op = "updateSkillExperience"
    /\ lastOp.name = s_machine_learning
    /\ lastOp.arg = Num(5)
    /\ selectedSkills = <<Skill(s_python, 4)>>
    /\ interests = WeightedQuery(selectedSkills)

\* C18: an add with the empty name, through the add button or by a call of
\* addSkill, changes neither the list nor the interests field and reports
\* nothing.
C18_EmptyNameIsNoOp ==
    [][(/\ lastOp'.op \in Adds
        /\ lastOp'.name = <<>>) =>
            /\ selectedSkills' = selectedSkills
            /\ interests' = interests
            /\ ~lastOp'.threw
      ]_vars

\* C19: after a click on the reset button selectedSkills is empty and the
\* interests field holds the empty string.
C19_ResetClearsQuery ==
    lastOp.op = "reset" =>
        /\ selectedSkills = <<>>
        /\ interests = <<>>

\* C20: when the page has loaded selectedSkills is empty and the interests
\* field holds the empty string, and updateInterestsInput on an empty list,
\* as the removal of the last entry runs it, writes the empty string.
C20_EmptyAtStart ==
    /\ lastOp.op = "load" =>
           /\ selectedSkills = <<>>
           /\ interests = <<>>
    /\ (lastOp.op = "removeSkill" /\ selectedSkills = <<>>) =>
           /\ ~lastOp.threw
           /\ interests = <<>>
    /\ WeightedQuery(<<>>) = <<>>

\* removeSkill has just removed the only entry of the list
C20_Witness ==
    /\ lastOp.op = "removeSkill"
    /\ lastOp.arg.found
    /\ selectedSkills = <<>>
    /\ interests = <<>>

\* a name in lower case: the capital letters A to Z replaced
UpperCase == <<"A", "B", "C", "D", "E", "F", "G", "H", "I", "J", "K", "L", "M",
               "N", "O", "P", "Q", "R", "S", "T", "U", "V", "W", "X", "Y", "Z">>
LowerCase == <<"a", "b", "c", "d", "e", "f", "g", "h", "i", "j", "k", "l", "m",
               "n", "o", "p", "q", "r", "s", "t", "u", "v", "w", "x", "y", "z">>
ToLowerCase(str) ==
    [i \in 1..Len(str) |->
        IF \E u \in 1..Len(UpperCase) : UpperCase[u] = str[i]
        THEN LowerCase[CHOOSE u \in 1..Len(UpperCase) : UpperCase[u] = str[i]]
        ELSE str[i]]
Normalized(str) == ToLowerCase(Trim(str))

\* C21: every entry of selectedSkills has a name that is not empty and equals
\* its trimmed lower-case form, and no two entries have names with the same
\* trimmed lower-case form.
C21_NamesNormalized ==
    /\ \A i \in 1..Len(selectedSkills) :
           /\ selectedSkills[i].name # <<>>
           /\ Normalized(selectedSkills[i].name) = selectedSkills[i].name
    /\ \A i, j \in 1..Len(selectedSkills) :
           i # j => Normalized(selectedSkills[i].name) #
                        Normalized(selectedSkills[j].name)

Approaches == {"hybrid", "content-based", "collaborative"}

\* C22: every request that was sent carries a k that is a positive integer
\* and an approach that is hybrid, content-based or collaborative, whatever
\* the form fields k and model_type held at the submit.
C22_RequestParametersValid ==
    \A i \in 1..Len(pending) :
        /\ IsNum(pending[i].k)
        /\ pending[i].k.num > 0
        /\ pending[i].approach \in Approaches

\* C23: whenever the loading indicator is shown, the results section or the
\* error message is shown later, also when the server never answers.
C23_PendingEventuallyEnds ==
    ~loadingHidden ~> (~resultsHidden \/ ~errorHidden)

\* the form is shown with no error message
FormShown == ~inputHidden /\ errorHidden

\* the form is shown with no error message, every level of the list is a
\* valid array length and the interests field holds the query of the list
InputReady ==
    /\ FormShown
    /\ ~QueryThrows(selectedSkills)
    /\ interests = WeightedQuery(selectedSkills)

\* C24: whenever an error message is shown the user can dismiss it, dismissing
\* it shows the form again with no error message, and from the form shown with
\* no error one more user action (picking a test case) gives a skill list whose
\* query is computed and held by the interests field.
C24_ErrorIsRecoverable ==
    /\ [](~errorHidden => ENABLED DismissError)
    /\ [][/\ DismissError => FormShown'
          /\ RefillForm => InputReady'
         ]_vars

\* a test case was picked after an error message had been dismissed, while the
\* list held a level that is no number
C24_Witness ==
    /\ lastOp.op = "fillTestCase"
    /\ errorText # ""
    /\ InputReady
    /\ selectedSkills = testCases["cs"]

\* C25: addSkill called without a level, with a name that is not empty and not
\* listed, appends one entry of that name with level 3 at the end of the list
\* and leaves the entries before it as they were.
C25_DefaultLevelIsThree ==
    [][(/\ lastOp'.op = "addSkill"
        /\ lastOp'.arg = Undefined
        /\ lastOp'.name # <<>>
        /\ ~HasSkill(selectedSkills, lastOp'.name)) =>
            selectedSkills' =
                Append(selectedSkills,
                       [name |-> lastOp'.name, experience |-> Num(3)])
      ]_vars

\* addSkill was just called without a level and the list holds its entry with
\* level 3 after an entry that the add button made with level 4
C25_Witness ==
    /\ lastOp.op = "addSkill"
    /\ lastOp.arg = Undefined
    /\ Len(selectedSkills) = 2
    /\ selectedSkills[1].experience = Num(4)
    /\ selectedSkills[2] = [name |-> lastOp.name, experience |-> Num(3)]

C27_ResetShowsEmptyForm ==
    lastOp.op = "reset" =>
        /\ selectedSkills = <<>>
        /\ resultsHidden
        /\ ~inputHidden
        /\ hiddenOptions = {}

\* the reset button was just clicked on results shown for a skill that the add
\* button had added
C27_Witness ==
    /\ lastOp.op = "reset"
    /\ userSkillsDisplay = <<Skill(skillOptions[1], 4)>>
    /\ selectedSkills = <<>>
    /\ hiddenOptions = {}
    /\ ~inputHidden

\* C28: when a request is answered with a success and a well-formed body, the
\* loading indicator is hidden, the results section is shown, the input
\* section and the error message are hidden, and the banner names the
\* approach of the body, or the approach requested when the body has none.
C28_SuccessShowsResults ==
    [][(/\ lastOp'.op = "responseOk"
        /\ lastOp'.arg.outcome = "ok") =>
            /\ loadingHidden'
            /\ ~resultsHidden'
            /\ inputHidden'
            /\ errorHidden'
            /\ modelInfo' = IF lastOp'.arg.dataApproach # ""
                            THEN lastOp'.arg.dataApproach
                            ELSE lastOp'.arg.requested
      ]_vars

\* the list that is sorted as sort() leaves it
IsSorted(array) ==
    \A i \in 1..(Len(array) - 1) : ~StringLess(array[i + 1], array[i])

\* an entry that is empty or whitespace only
Blank(skill) == Trim(skill) = <<>>

\* C29: whenever loading the skills file fails (network error or non-success
\* response) the available-skills list becomes the built-in fallback list,
\* and in every outcome the dropdown is populated exactly once with a sorted
\* list that has no blank entries
C29_LoadFailureGivesFallback ==
    skillsLoad = "done" =>
        /\ lastOp.op = "loadSkills"
               => (lastOp.arg.outcome # "ok"
                       => availableSkills = Sort(fallbackSkills))
        /\ skillSelectOptions = availableSkills
        /\ IsSorted(skillSelectOptions)
        /\ \A i \in 1..Len(skillSelectOptions) : ~Blank(skillSelectOptions[i])

\* C30: submitFeedback marks a recommendation only on a success response:
\* after an ok response the clicked button carries its feedback class and no
\* sibling feedback button carries clicked or rejected; after a non-ok
\* response or a network failure no button's classes or label change
C30_FeedbackMarksOnlyOnSuccess ==
    [][lastOp'.op = "feedbackResponse" =>
          IF lastOp'.arg.outcome = "ok"
          THEN /\ lastOp'.arg.feedbackType \in btnClass'[lastOp'.arg.button]
               /\ \A b \in Buttons \ {lastOp'.arg.button} :
                      btnClass'[b] \cap {"clicked", "rejected"} = {}
          ELSE UNCHANGED <<btnClass, btnLabel>>
      ]_vars

\* an ok response to "Not for me" on a card whose "Interested" was marked
C30_Witness ==
    /\ lastOp.op = "feedbackResponse"
    /\ lastOp.arg.outcome = "ok"
    /\ lastOp.arg.button = "notForMe"
    /\ lastOp.arg.before["interested"] = {"clicked"}
    /\ btnClass["notForMe"] = {"rejected"}

\* C31: in every reachable state the interests field holds the empty string
\* if and only if selectedSkills is empty.
C31_QueryEmptyIffSetEmpty ==
    (interests = <<>>) <=> (Len(selectedSkills) = 0)

\* C32: after every click on the add button, removeSkill, reset and
\* fillTestCase an option of the dropdown is hidden if and only if its skill
\* is in selectedSkills.
C32_HiddenIffSelected ==
    lastOp.op \in {"addSkillBtn", "removeSkill", "reset", "fillTestCase"} =>
        \A i \in 1..Len(skillSelectOptions) :
            skillSelectOptions[i] \in hiddenOptions
                <=> HasSkill(selectedSkills, skillSelectOptions[i])

\* the views that are visible
VisibleViews ==
    {v \in {"input", "loading", "results", "error"} :
        \/ v = "input" /\ ~inputHidden
        \/ v = "loading" /\ ~loadingHidden
        \/ v = "results" /\ ~resultsHidden
        \/ v = "error" /\ ~errorHidden}

\* C33: in every reachable state at most one of the input section, the
\* loading indicator, the results section and the error message is visible.
C33_AtMostOneView == Cardinality(VisibleViews) <= 1

\* C34: selectedSkills is not changed while a request is unanswered, and
\* when a request is answered with a success the skills profile displayed
\* with the results is the current list and the interests string of that
\* request is the weighted query of that list.
C34_ProfileIsRequestedSkills ==
    [][/\ pending # <<>> => selectedSkills' = selectedSkills
       /\ lastOp'.op = "responseOk" =>
              \E i \in 1..Len(pending) :
                  /\ pending' = SubSeq(pending, 1, i - 1)
                                    \o SubSeq(pending, i + 1, Len(pending))
                  /\ userSkillsDisplay' = selectedSkills
                  /\ ~QueryThrows(userSkillsDisplay')
                  /\ WeightedQuery(userSkillsDisplay') = pending[i].interests
      ]_vars

\* C35: once every confirmation timer has fired, every feedback button shows
\* the label it had in the markup of the card, after any sequence of
\* submissions and answers.
C35_LabelRestored ==
    timers = <<>> => \A b \in Buttons : btnLabel[b] = Label(b)

====
